---- MODULE Spec2Model ----
(***************************************************************************)
(* A model of src/src/pson.h (protoson): the tagged dynamic value, its     *)
(* object/array containers, the varint helpers, and the recursive          *)
(* pson_encoder / pson_decoder pair.                                       *)
(*                                                                         *)
(* Unsigned 64-bit and 32-bit integers whose width matters are bit         *)
(* vectors (sequences of 0/1, least significant bit first).  Bytes are     *)
(* integers 0..255.                                                        *)
(***************************************************************************)
EXTENDS Integers, Sequences, FiniteSets, TLC

VARIABLES
    \* ---- varint helpers under test (SpecVarint) ----
    vM,         \* the magnitude handed to the encoders (64 bits)
    vPc,        \* "start" | "encoded" | "decoded"
    vBuf,       \* bytes pson::pb_encode_varint stored in the payload buffer
    vStream,    \* bytes pson_encoder::pb_encode_varint wrote to the stream
    vSize,      \* pson::get_varint_size(vM)
    vDecBuf,    \* result of pson::pb_decode_varint on vBuf
    vDecStream, \* result of pson_decoder::pb_decode_varint64 on vStream
    \* ---- the application's value tree ----
    pc,         \* "build" | "decode" | "destroyed" | "wire" | "off"
    tree,       \* the root pson the application builds
    nops,       \* operations applied to the tree so far
    brk,        \* the address the next pool.allocate returns
    lastOp,     \* the last operation: its name, target, arguments, result
    empty_value,\* static pson pson::empty_value
    enc,        \* the pson_encoder after encode(tree)
    freed,      \* the addresses passed to pool.deallocate by ~pson
    \* ---- the decoder and its byte source ----
    src,        \* the bytes the source holds
    srcCounts,  \* whether a failing read still adds to read_
    overrun,    \* what this build makes of a store past the end of temp[10]
    wmeta,      \* how the bytes in src were put together
    dec,        \* the pson_decoder: read_, and what its reads met
    dcur,       \* the pson the running decode(value) call fills
    dstack,     \* the object/array loops in progress, innermost last
    douts,      \* the finished decode(value) calls, oldest first
    dmax,       \* how many decode(value) calls the caller makes
    \* ---- circular_memory_allocator<BufferSize> (SpecAlloc) ----
    index_,     \* size_t index_
    aLast,      \* the last allocate call: index_ before it, size, offset returned
    aSince,     \* the blocks returned since the last wrap, the wrapping one first
    aCalls      \* allocate calls made so far

varintVars == <<vM, vPc, vBuf, vStream, vSize, vDecBuf, vDecStream>>
buildVars == <<tree, nops, brk, lastOp, empty_value, enc, freed>>
decVars == <<src, srcCounts, overrun, wmeta, dec, dcur, dstack, douts, dmax>>
allocVars == <<index_, aLast, aSince, aCalls>>

vars == <<varintVars, pc, buildVars, decVars, allocVars>>

-----------------------------------------------------------------------------
(* Bit vectors                                                             *)

W64 == 64
W32 == 32

Zeros(n) == [i \in 1..n |-> 0]

\* the low 7 bits of a bit vector as an integer: value & 0x7F
Low7(b) == b[1] + 2*b[2] + 4*b[3] + 8*b[4] + 16*b[5] + 32*b[6] + 64*b[7]

\* value >>= 7 on a w-bit unsigned
Shr7(b) == [i \in 1..Len(b) |-> IF i + 7 <= Len(b) THEN b[i + 7] ELSE 0]

IsZero(b) == \A i \in 1..Len(b) : b[i] = 0

\* bit k (0-based) of the integer x, 0 <= x < 128
BitOf(x, k) == (x \div (2 ^ k)) % 2

\* b | (x << sh) where x < 128 was first converted to a cw-bit unsigned and
\* the result of the shift is then widened to Len(b) bits; sh < cw
OrShl(b, x, sh, cw) ==
    [i \in 1..Len(b) |->
        IF i > sh /\ i <= sh + 7 /\ i <= cw /\ BitOf(x, i - 1 - sh) = 1
        THEN 1 ELSE b[i]]

\* The results a build can produce for b | ((cw-bit)x << sh): defined when
\* sh < cw; for sh >= cw the shift is undefined behaviour and the hardware
\* either shifts everything out or uses the count modulo the width.
OrShlOutcomes(b, x, sh, cw) ==
    IF sh < cw THEN {OrShl(b, x, sh, cw)}
    ELSE {b, OrShl(b, x, sh % cw, cw)}

\* number of significant bits
BitLength(b) ==
    IF IsZero(b) THEN 0
    ELSE CHOOSE k \in 1..Len(b) : b[k] = 1 /\ \A j \in (k+1)..Len(b) : b[j] = 0

\* a small natural number as a w-bit vector
ToBits(n, w) == [i \in 1..w |-> IF i <= 31 THEN (n \div (2 ^ (i - 1))) % 2 ELSE 0]

RECURSIVE BitsValue(_, _)
\* the integer a bit vector denotes, for vectors below 2^31 (index from k)
BitsValue(b, k) ==
    IF k > Len(b) \/ k > 31 THEN 0 ELSE b[k] + 2 * BitsValue(b, k + 1)

ToNat(b) == BitsValue(b, 1)

-----------------------------------------------------------------------------
(* pson varint helpers                                                     *)

RECURSIVE get_varint_size(_)
\* size_t size = 1; while(value>>=7) size++;
get_varint_size(value) ==
    IF IsZero(Shr7(value)) THEN 1 ELSE 1 + get_varint_size(Shr7(value))

RECURSIVE pb_encode_varint(_)
\* pson::pb_encode_varint(buffer, value): the bytes stored in buffer
pb_encode_varint(value) ==
    LET low  == Low7(value)
        rest == Shr7(value)
    IN IF IsZero(rest) THEN <<low>>
       ELSE <<low + 128>> \o pb_encode_varint(rest)

RECURSIVE pb_decode_varint_from(_, _, _)
\* the do/while of pson::pb_decode_varint from position pos (0-based) with
\* the value accumulated so far; the set of results the build can produce
pb_decode_varint_from(buffer, pos, value) ==
    IF pos + 1 > Len(buffer) THEN {value}
    ELSE LET byte == buffer[pos + 1]
             nexts == OrShlOutcomes(value, byte % 128, pos * 7, W64)
         IN IF byte >= 128
            THEN UNION {pb_decode_varint_from(buffer, pos + 1, v) : v \in nexts}
            ELSE nexts

\* pson::pb_decode_varint(buffer)
pb_decode_varint(buffer) == pb_decode_varint_from(buffer, 0, Zeros(W64))

RECURSIVE pb_decode_varint64_from(_, _, _)
\* the do/while of pson_decoder::pb_decode_varint64 over the bytes the
\* source still holds: the set of <<value, bytes read>> the build can produce
pb_decode_varint64_from(bytes, k, varint) ==
    IF k + 1 > Len(bytes) THEN {<<varint, k>>}            \* read() failed
    ELSE IF 7 * k >= 64 THEN {<<varint, k + 1>>}          \* bit_pos >= 64
    ELSE LET byte == bytes[k + 1]
             nexts == OrShlOutcomes(varint, byte % 128, 7 * k, W32)
         IN IF byte > 128
            THEN UNION {pb_decode_varint64_from(bytes, k + 1, v) : v \in nexts}
            ELSE {<<v, k + 1>> : v \in nexts}

pb_decode_varint64(bytes) == pb_decode_varint64_from(bytes, 0, Zeros(W64))

-----------------------------------------------------------------------------
(* Wire types and field types                                              *)

varint == 0
fixed_64 == 1
length_delimited == 2
fixed_32 == 5

null_field == 0
varint_field == 1
svarint_field == 2
float_field == 3
double_field == 4
true_field == 5
false_field == 6
zero_field == 7
one_field == 8
string_field == 9
bytes_field == 10
object_field == 11
array_field == 12

-----------------------------------------------------------------------------
(* Values.  A pson is [field_type_, value_]; value_ is what the pointer     *)
(* leads to: nothing (NULL), an allocated byte block, a pson_object or a   *)
(* pson_array (a block holding the list of its nodes).  A block records    *)
(* the address the allocator returned (id; 0 where the allocation is not   *)
(* tracked), its size, the bytes written to it, and whether all of it was  *)
(* written (ok): a block a failed read left unwritten holds indeterminate  *)
(* bytes.                                                                  *)

NULL == [kind |-> "null", id |-> 0, size |-> 0, data |-> <<>>, ok |-> TRUE, items |-> <<>>]
Buf(d) == [kind |-> "buf", id |-> 0, size |-> Len(d), data |-> d, ok |-> TRUE, items |-> <<>>]
RawBuf(n, d) == [kind |-> "buf", id |-> 0, size |-> n, data |-> d, ok |-> FALSE, items |-> <<>>]
Obj(its) == [kind |-> "obj", id |-> 0, size |-> 0, data |-> <<>>, ok |-> TRUE, items |-> its]
Arr(its) == [kind |-> "arr", id |-> 0, size |-> 0, data |-> <<>>, ok |-> TRUE, items |-> its]

\* the block as returned by pool.allocate at address a
At(block, a) == [block EXCEPT !.id = a]

\* pson() : field_type_(null_field), value_(NULL)
Pson(t, v) == [field_type_ |-> t, value_ |-> v]
NullPson == Pson(null_field, NULL)

\* pson_pair() : name_(NULL), with its member value_
PsonPair(n, v) == [name_ |-> n, value_ |-> v]
NewPair == PsonPair(NULL, NullPson)

\* struct list_item { T item_; list_item* next_; } allocated at address a
ListItem(a, item) == [id |-> a, item_ |-> item]

\* strlen: the bytes before the first NUL
StrLen(d) ==
    IF \E i \in 1..Len(d) : d[i] = 0
    THEN (CHOOSE i \in 1..Len(d) : d[i] = 0 /\ \A j \in 1..(i-1) : d[j] # 0) - 1
    ELSE Len(d)

CStr(d) == SubSeq(d, 1, StrLen(d))

\* pson_container<T>::create_item: new(pool) list_item(), linked after the
\* last node
create_item(items, a, fresh) == Append(items, ListItem(a, fresh))

-----------------------------------------------------------------------------
(* pson assignment and coercion.  The parameter a is the address the next  *)
(* pool.allocate returns; consecutive allocations of one call get a, a+1.  *)

Abs(n) == IF n < 0 THEN -n ELSE n

\* operator=(T) without the special cases for 0 and 1
assign_int_no_compaction(v, n, a) ==
    Pson(IF n < 0 THEN svarint_field ELSE varint_field,
         At(Buf(pb_encode_varint(ToBits(Abs(n), W64))), a))

\* template<class T> void operator=(T value), for an integer
assign_int(v, n, a) ==
    IF n = 0 THEN [v EXCEPT !.field_type_ = zero_field]
    ELSE IF n = 1 THEN [v EXCEPT !.field_type_ = one_field]
    ELSE Pson(IF n < 0 THEN svarint_field ELSE varint_field,
              At(Buf(pb_encode_varint(ToBits(Abs(n), W64))), a))

\* void operator=(bool value)
assign_bool(v, b) ==
    [v EXCEPT !.field_type_ = IF b THEN true_field ELSE false_field]

\* void operator=(float value), the float given by what the code reads of it
assign_float(v, f, a) ==
    IF f.f32IsInt THEN assign_int(v, f.f32Int, a)
    ELSE Pson(float_field, At(Buf(f.f32Bytes), a))

\* void operator=(double value)
assign_double(v, d, a) ==
    IF d.isInt THEN assign_int(v, d.int, a)
    ELSE IF d.nearF32 THEN assign_float(v, d, a)
    ELSE Pson(double_field, At(Buf(d.f64Bytes), a))

\* void operator=(const char *str): strlen(str)+1 bytes, terminator included
assign_str(v, str, a) == Pson(string_field, At(Buf(CStr(str) \o <<0>>), a))

\* set_bytes(bytes, size)
set_bytes(v, bytes, a) ==
    Pson(bytes_field,
         At(Buf(pb_encode_varint(ToBits(Len(bytes), W64)) \o bytes), a))

\* pson::operator pson_object &()
to_object(v, a) ==
    IF v.field_type_ # object_field THEN Pson(object_field, At(Obj(<<>>), a)) ELSE v

\* pson::operator pson_array &()
to_array(v, a) ==
    IF v.field_type_ # array_field THEN Pson(array_field, At(Arr(<<>>), a)) ELSE v

\* the index of the first pair whose name strcmp-equals name, 0 if none
find_pair(items, name) ==
    IF \E i \in 1..Len(items) : CStr(items[i].item_.name_.data) = CStr(name)
    THEN CHOOSE i \in 1..Len(items) :
            /\ CStr(items[i].item_.name_.data) = CStr(name)
            /\ \A j \in 1..(i-1) : CStr(items[j].item_.name_.data) # CStr(name)
    ELSE 0

\* pair.set_name(name)
set_name(pair, name, a) == [pair EXCEPT !.name_ = At(Buf(CStr(name) \o <<0>>), a)]

\* operator[] without the scan for an existing name
object_index_always_create(items, name, a) ==
    [items |-> create_item(items, a, set_name(NewPair, name, a + 1)),
     idx |-> Len(items) + 1]

\* pson_object::operator[](name): [items after the call, index returned]
object_index(items, name, a) ==
    IF find_pair(items, name) # 0
    THEN [items |-> items, idx |-> find_pair(items, name)]
    ELSE [items |-> create_item(items, a, set_name(NewPair, name, a + 1)),
          idx |-> Len(items) + 1]

\* pson_object::operator[](name) const: the index found, 0 for empty_value
object_index_const(items, name) == find_pair(items, name)

\* pson::operator[](name): the coercion, then the object's operator[]
pson_index(v, name, a) ==
    LET o == to_object(v, a)
        r == object_index(o.value_.items, name,
                          IF v.field_type_ # object_field THEN a + 1 ELSE a)
    IN [v |-> [o EXCEPT !.value_.items = r.items], idx |-> r.idx]

\* pson::operator[](name) const on any pson: 0 stands for empty_value
pson_index_const(v, name) ==
    IF v.field_type_ # object_field THEN 0
    ELSE object_index_const(v.value_.items, name)

\* (pson_array&) v, then create_item()
array_create_item(v, a) ==
    LET r == to_array(v, a)
    IN [r EXCEPT !.value_.items =
            create_item(@, IF v.field_type_ # array_field THEN a + 1 ELSE a, NullPson)]

RECURSIVE pson_dtor(_)
RECURSIVE container_dtor(_, _, _)

\* ~pson(): the addresses handed to pool.deallocate, in order.  A NULL
\* value_ reaches deallocate as free(NULL) and releases nothing.
pson_dtor(v) ==
    LET p == v.value_
    IN IF p.kind = "null" THEN <<>>
       ELSE IF v.field_type_ \in {object_field, array_field}
       THEN container_dtor(p.kind, p.items, 1) \o <<p.id>>     \* destroy(): ~T, deallocate
       ELSE <<p.id>>                                           \* pool.deallocate(value_)

\* ~pson_container(): destroy(current, pool) for every node from node i
container_dtor(kind, items, i) ==
    IF i > Len(items) THEN <<>>
    ELSE LET it == items[i].item_
             inner == IF kind = "obj"
                      THEN (IF it.name_.kind = "null" THEN <<>> ELSE <<it.name_.id>>)
                               \o pson_dtor(it.value_)        \* ~pson_pair, then its member
                      ELSE pson_dtor(it)
         IN inner \o <<items[i].id>> \o container_dtor(kind, items, i + 1)

\* the child psons of a value, in list order
Children(v) ==
    IF v.field_type_ = object_field /\ v.value_.kind = "obj"
        THEN [i \in 1..Len(v.value_.items) |-> v.value_.items[i].item_.value_]
    ELSE IF v.field_type_ = array_field /\ v.value_.kind = "arr"
        THEN [i \in 1..Len(v.value_.items) |-> v.value_.items[i].item_]
    ELSE <<>>

RECURSIVE GetAt(_, _)
\* the pson a path of child indices leads to
GetAt(v, path) ==
    IF path = <<>> THEN v ELSE GetAt(Children(v)[Head(path)], Tail(path))

RECURSIVE SetAt(_, _, _)
\* v with the pson at path replaced
SetAt(v, path, nv) ==
    IF path = <<>> THEN nv
    ELSE IF v.value_.kind = "obj"
    THEN [v EXCEPT !.value_.items[Head(path)].item_.value_ = SetAt(@, Tail(path), nv)]
    ELSE [v EXCEPT !.value_.items[Head(path)].item_ = SetAt(@, Tail(path), nv)]

RECURSIVE Paths(_)
\* the paths of all psons of the tree under v
Paths(v) ==
    {<<>>} \cup UNION {{<<i>> \o q : q \in Paths(Children(v)[i])} :
                         i \in 1..Len(Children(v))}

-----------------------------------------------------------------------------
(* pson_encoder.  E is the encoder object: written_, and for the encoder   *)
(* that owns a real sink the bytes it was handed (out).  subs is a record  *)
(* kept for each submessage the real encoder wrote: the length it declared *)
(* and the bytes its second pass produced.                                 *)

NewEncoder(real) == [real |-> real, written_ |-> 0, out |-> <<>>, subs |-> <<>>]

\* write counting calls instead of bytes
write_counting_calls(E, buffer, size) ==
    [E EXCEPT !.written_ = @ + 1,
              !.out = IF E.real THEN @ \o SubSeq(buffer, 1, size) ELSE @]

\* virtual void write(buffer, size): the base class counts; a sink also
\* keeps the bytes
write(E, buffer, size) ==
    [E EXCEPT !.written_ = @ + size,
              !.out = IF E.real THEN @ \o SubSeq(buffer, 1, size) ELSE @]

RECURSIVE enc_pb_encode_varint(_, _)
\* pson_encoder::pb_encode_varint(uint64_t value)
enc_pb_encode_varint(E, value) ==
    LET low  == Low7(value)
        rest == Shr7(value)
        byte == IF ~IsZero(rest) THEN low + 128 ELSE low
        E1   == write(E, <<byte>>, 1)
    IN IF ~IsZero(rest) THEN enc_pb_encode_varint(E1, rest) ELSE E1

\* pb_encode_tag(wire_type, field_number)
pb_encode_tag(E, wire_type, field_number) ==
    enc_pb_encode_varint(E, ToBits(field_number * 8 + wire_type, W64))

RECURSIVE pb_write_varint_from(_, _, _)
\* the do/while of pb_write_varint: [E, bytes_written]
pb_write_varint_from(E, buffer, n) ==
    LET byte == buffer[n + 1]
        E1   == write(E, <<byte>>, 1)
    IN IF byte >= 128 /\ n + 2 <= Len(buffer)
       THEN pb_write_varint_from(E1, buffer, n + 1)
       ELSE [E |-> E1, n |-> n + 1]

pb_write_varint(E, buffer) == pb_write_varint_from(E, buffer, 0)

\* pb_encode_string(const char* str)
pb_encode_string(E, str) ==
    write(enc_pb_encode_varint(E, ToBits(StrLen(str), W64)), str, StrLen(str))

\* pb_encode_string(str, field_number)
pb_encode_string_field(E, str, field_number) ==
    pb_encode_string(pb_encode_tag(E, length_delimited, field_number), str)

\* pb_encode_fixed32(field, value) / pb_encode_fixed64(field, value)
pb_encode_fixed32(E, field, value) == write(pb_encode_tag(E, fixed_32, field), value, 4)
pb_encode_fixed64(E, field, value) == write(pb_encode_tag(E, fixed_64, field), value, 8)

\* the size a bytes payload states in its own varint prefix
bytes_size(buffer) == ToNat(CHOOSE x \in pb_decode_varint(buffer) : TRUE)

RECURSIVE encode(_, _)
RECURSIVE encode_items(_, _, _, _)
RECURSIVE pb_encode_submessage(_, _, _)

\* encode(pson_pair & pair)
encode_pair(E, pair) == encode(pb_encode_string(E, pair.name_.data), pair.value_)

\* encode(pson_object &) / encode(pson_array &): the iterator walk from item i
encode_items(E, kind, items, i) ==
    IF i > Len(items) THEN E
    ELSE encode_items(IF kind = "obj" THEN encode_pair(E, items[i].item_)
                      ELSE encode(E, items[i].item_),
                      kind, items, i + 1)

encode_container(E, element) == encode_items(E, element.kind, element.items, 1)

\* pb_encode_submessage(element, field_number)
pb_encode_submessage(E, element, field_number) ==
    LET E1   == pb_encode_tag(E, length_delimited, field_number)
        sink == encode_container(NewEncoder(FALSE), element)
        E2   == enc_pb_encode_varint(E1, ToBits(sink.written_, W64))
        E3   == encode_container(E2, element)
    IN IF E.real
       THEN [E3 EXCEPT !.subs = Append(@, [declared |-> sink.written_,
                                           emitted |-> Len(E3.out) - Len(E2.out)])]
       ELSE E3

\* encode(pson & value)
encode(E, value) ==
    LET t == value.field_type_
        p == value.value_
    IN CASE t \in {true_field, false_field, one_field, zero_field} ->
              pb_encode_tag(E, varint, t)
         [] t = string_field ->
              pb_encode_string_field(E, p.data, string_field)
         [] t = bytes_field ->
              LET r == pb_write_varint(pb_encode_tag(E, length_delimited, bytes_field),
                                       p.data)
              IN write(r.E, SubSeq(p.data, r.n + 1, Len(p.data)), bytes_size(p.data))
         [] t \in {svarint_field, varint_field} ->
              pb_write_varint(pb_encode_tag(E, varint, t), p.data).E
         [] t = float_field -> pb_encode_fixed32(E, float_field, p.data)
         [] t = double_field -> pb_encode_fixed64(E, double_field, p.data)
         [] t = object_field -> pb_encode_submessage(E, p, object_field)
         [] t = array_field -> pb_encode_submessage(E, p, array_field)
         [] OTHER -> pb_encode_tag(E, varint, null_field)

-----------------------------------------------------------------------------
(* pson_decoder.  R is the decoder object: read_, plus a record of what    *)
(* its reads met: eof, a read returned false; late, a read was attempted   *)
(* after one had returned false; created, the create_item calls made.      *)
(* The source (a subclass overriding read) holds the bytes src; a read     *)
(* past their end returns false.                                           *)

NewDecoder ==
    [read_ |-> 0, eof |-> FALSE, late |-> FALSE, created |-> 0, stored |-> 0, aborted |-> FALSE]

\* virtual bool read(buffer, size): [ok, the bytes stored in buffer, R]
src_read(R, size) ==
    IF size = 0 \/ R.read_ + size <= Len(src)
    THEN [ok |-> TRUE, data |-> SubSeq(src, R.read_ + 1, R.read_ + size),
          R |-> [R EXCEPT !.read_ = @ + size, !.late = @ \/ R.eof]]
    ELSE [ok |-> FALSE, data |-> <<>>,
          R |-> [R EXCEPT !.read_ = IF srcCounts THEN @ + size ELSE @,
                          !.eof = TRUE, !.late = @ \/ R.eof]]

RECURSIVE pb_decode_varint32_from(_, _, _)
\* the do/while of pb_decode_varint32: [value, R]
pb_decode_varint32_from(R, v, bit_pos) ==
    LET r == src_read(R, 1)
    IN IF ~r.ok \/ bit_pos >= 32 THEN [value |-> ToNat(v), R |-> r.R]
       ELSE LET byte == r.data[1]
                v2 == OrShl(v, byte % 128, bit_pos, W32)
            IN IF byte > 128 THEN pb_decode_varint32_from(r.R, v2, bit_pos + 7)
               ELSE [value |-> ToNat(v2), R |-> r.R]

pb_decode_varint32(R) == pb_decode_varint32_from(R, Zeros(W32), 0)

\* pb_skip(size): size one-byte reads, whatever they return
pb_skip(R, size) ==
    LET avail == IF Len(src) > R.read_ THEN Len(src) - R.read_ ELSE 0
    IN IF size <= avail
       THEN [R EXCEPT !.read_ = @ + size, !.late = @ \/ (R.eof /\ size > 0)]
       ELSE [R EXCEPT !.read_ = IF srcCounts THEN @ + size ELSE @ + avail,
                      !.eof = TRUE,
                      !.late = @ \/ R.eof \/ size - avail > 1]

RECURSIVE pb_read_varint_from(_, _)
\* the do/while of pb_read_varint: [ok, the bytes stored in temp, R]
pb_read_varint_from(R, temp) ==
    LET r == src_read(R, 1)
    IN IF ~r.ok THEN [ok |-> FALSE, temp |-> temp, R |-> r.R]
       ELSE IF r.data[1] >= 128
       THEN pb_read_varint_from(r.R, Append(temp, r.data[1]))
       ELSE [ok |-> TRUE, temp |-> Append(temp, r.data[1]), R |-> r.R]

\* char temp[10]
TempSize == 10

\* the outcomes of a store past temp[9], which the language leaves
\* undefined: it lands where nothing reads it and the call goes on
\* ("spill"); it lands on the counter bytes_read, which then continues from
\* the byte stored ("clobber"); the stack check ends the process when the
\* function returns ("abort")
Overruns == {"spill", "clobber", "abort"}

\* the value bytes_read holds when the loop ends after the stores in temp
stored_count(temp) ==
    IF Len(temp) > TempSize /\ overrun = "clobber"
    THEN (temp[TempSize + 1] + Len(temp) - TempSize) % 256
    ELSE Len(temp) % 256

\* memcpy(value.allocate(bytes_read), temp, bytes_read) after the loop that
\* left r.  The k-th store went to temp[k-1]; R.stored is the largest
\* number of stores one call has made.  After a store past temp[9] the
\* block allocated has the size the counter holds and bytes the model does
\* not know.  On a failed read value_ is left as it was.
pb_read_varint_copy(r, value) ==
    [value |-> IF ~r.ok \/ (Len(r.temp) > TempSize /\ overrun = "abort") THEN value
               ELSE IF Len(r.temp) > TempSize
               THEN [value EXCEPT !.value_ =
                        RawBuf(stored_count(r.temp), SubSeq(r.temp, 1, TempSize))]
               ELSE [value EXCEPT !.value_ = Buf(r.temp)],
     R |-> [r.R EXCEPT !.stored = IF Len(r.temp) > @ THEN Len(r.temp) ELSE @,
                       !.aborted = @ \/ (Len(r.temp) > TempSize /\ overrun = "abort")]]

\* pb_read_varint(value)
pb_read_varint(R, value) == pb_read_varint_copy(pb_read_varint_from(R, <<>>), value)

\* pb_read_string(str, size) into a block of size+1 bytes
pb_read_string(R, size) ==
    LET r == src_read(R, size)
    IN [block |-> IF r.ok THEN Buf(r.data \o <<0>>) ELSE RawBuf(size + 1, <<>>),
        R |-> r.R]

\* read(value.allocate(n), n)
read_fixed(R, value, n) ==
    LET r == src_read(R, n)
    IN [value |-> [value EXCEPT !.value_ = IF r.ok THEN Buf(r.data) ELSE RawBuf(n, <<>>)],
        R |-> r.R]

\* decode(pson & value) up to the point where it enters an object or array
\* loop: [value, R, push, size].  push says the value is a fresh empty
\* composite whose loop over size bytes comes next.  decode returns void.
decode(R, value) ==
    LET tag          == pb_decode_varint32(R)
        wire_type    == tag.value % 8
        field_number == tag.value \div 8
        v1           == [value EXCEPT !.field_type_ = field_number]
        sz           == pb_decode_varint32(tag.R)
        size         == sz.value
        lenbytes     == pb_encode_varint(ToBits(size, W64))
    IN IF wire_type = length_delimited
       THEN CASE field_number = string_field ->
                   LET r == pb_read_string(sz.R, size)
                   IN [value |-> [v1 EXCEPT !.value_ = r.block], R |-> r.R,
                       push |-> FALSE, size |-> 0]
              [] field_number = bytes_field ->
                   LET r == src_read(sz.R, size)
                   IN [value |-> [v1 EXCEPT !.value_ =
                                     IF r.ok THEN Buf(lenbytes \o r.data)
                                     ELSE RawBuf(size + Len(lenbytes), lenbytes)],
                       R |-> r.R, push |-> FALSE, size |-> 0]
              [] field_number = object_field ->
                   [value |-> [v1 EXCEPT !.value_ = Obj(<<>>)], R |-> sz.R,
                    push |-> TRUE, size |-> size]
              [] field_number = array_field ->
                   [value |-> [v1 EXCEPT !.value_ = Arr(<<>>)], R |-> sz.R,
                    push |-> TRUE, size |-> size]
              [] OTHER ->
                   [value |-> v1, R |-> pb_skip(sz.R, size), push |-> FALSE, size |-> 0]
       ELSE CASE field_number \in {svarint_field, varint_field} ->
                   LET r == pb_read_varint(tag.R, v1)
                   IN [value |-> r.value, R |-> r.R, push |-> FALSE, size |-> 0]
              [] field_number = float_field ->
                   LET r == read_fixed(tag.R, v1, 4)
                   IN [value |-> r.value, R |-> r.R, push |-> FALSE, size |-> 0]
              [] field_number = double_field ->
                   LET r == read_fixed(tag.R, v1, 8)
                   IN [value |-> r.value, R |-> r.R, push |-> FALSE, size |-> 0]
              [] OTHER ->
                   [value |-> v1, R |-> tag.R, push |-> FALSE, size |-> 0]

\* decode(pson_pair & pair): [pair, R, push, size]
decode_pair(R, pair) ==
    LET name_size == pb_decode_varint32(R)
        nm        == pb_read_string(name_size.R, name_size.value)
        r         == decode(nm.R, pair.value_)
    IN [pair |-> PsonPair(nm.block, r.value), R |-> r.R,
        push |-> r.push, size |-> r.size]

\* while(size-(bytes_read()-start_read)>0) in size_t arithmetic: the
\* unsigned difference is positive unless it is exactly zero
loop_continues(size, bytes_read, start_read) == size - (bytes_read - start_read) # 0

-----------------------------------------------------------------------------
(* Bounds and inputs                                                       *)

MaxOps == 3          \* operations the application applies to the tree
MaxDepth == 2        \* nesting depth of the composites it builds
MaxItems == 2        \* items it puts in one object or array
MaxDecodeItems == 4  \* items one decode loop may create before the model stops

\* 0x80, the continuation bit of a varint byte
ContinuationBit == 128

\* the shortest length whose varint has the low byte 0x80
LongLen == ContinuationBit

Rep(n, x) == [i \in 1..n |-> x]

Ints == {0, 1, -1, 128}
Strings == {<<97>>, Rep(LongLen, 120)}
ByteBuffers == {<<0, 200>>}
Names == {<<97>>, <<97, 98>>}

\* doubles, each by what operator=(double) and operator=(float) read of it:
\* whether value==(int64_t)value, that integer, whether
\* fabs(value-(float)value)<=0.00001, whether the float is integral, and the
\* raw bytes of the float and of the double
Dbl(isInt, int, nearF32, f32IsInt, f32Int, f32Bytes, f64Bytes) ==
    [isInt |-> isInt, int |-> int, nearF32 |-> nearF32, f32IsInt |-> f32IsInt,
     f32Int |-> f32Int, f32Bytes |-> f32Bytes, f64Bytes |-> f64Bytes]

Doubles ==
    { Dbl(TRUE, 3, TRUE, TRUE, 3, <<0, 0, 64, 64>>, <<0, 0, 0, 0, 0, 0, 8, 64>>),       \* 3.0
      Dbl(FALSE, 1, TRUE, FALSE, 1, <<0, 0, 192, 63>>, <<0, 0, 0, 0, 0, 0, 248, 63>>),  \* 1.5
      Dbl(FALSE, 123456, FALSE, FALSE, 123456, <<101, 32, 241, 71>>,
          <<201, 118, 190, 159, 12, 36, 254, 64>>) }                                  \* 123456.789

-----------------------------------------------------------------------------
(* The application: it builds a tree with the public operations, then      *)
(* either encodes it and hands the bytes to a decoder, or destroys it.     *)

Max(a, b) == IF a > b THEN a ELSE b

RECURSIVE HighestAddr(_)
RECURSIVE HighestAddrItems(_, _, _)
\* the highest address of a block reachable from v
HighestAddr(v) ==
    Max(v.value_.id, HighestAddrItems(v.value_.kind, v.value_.items, 1))

HighestAddrItems(kind, items, i) ==
    IF i > Len(items) THEN 0
    ELSE Max(Max(items[i].id,
                 IF kind = "obj"
                 THEN Max(items[i].item_.name_.id, HighestAddr(items[i].item_.value_))
                 ELSE HighestAddr(items[i].item_)),
             HighestAddrItems(kind, items, i + 1))

Op(op, path, name, n, b, ret) ==
    [op |-> op, path |-> path, name |-> name, n |-> n, b |-> b, ret |-> ret]

NoOp == Op("none", <<>>, <<>>, 0, FALSE, <<>>)

\* the reference to pson::empty_value
EmptyRef == <<0>>

NoEncoder == NewEncoder(FALSE)
NoMeta == [kind |-> "none", parts |-> <<>>, len |-> 0]

DecIdle ==
    /\ src = <<>> /\ srcCounts = FALSE /\ overrun = "spill" /\ wmeta = NoMeta /\ dec = NewDecoder
    /\ dcur = NullPson /\ dstack = <<>> /\ douts = <<>> /\ dmax = 0

BuildIdle ==
    /\ tree = NullPson /\ nops = 0 /\ brk = 1 /\ lastOp = NoOp
    /\ empty_value = NullPson /\ enc = NoEncoder /\ freed = <<>>

VarintIdle ==
    /\ vM = <<>> /\ vPc = "off" /\ vBuf = <<>> /\ vStream = <<>> /\ vSize = 0
    /\ vDecBuf = <<>> /\ vDecStream = <<>>

\* circular_memory_allocator() : index_(0)
NoBlock == [before |-> 0, size |-> 0, offset |-> 0]
AllocIdle == index_ = 0 /\ aLast = NoBlock /\ aSince = <<>> /\ aCalls = 0

Init == pc = "build" /\ BuildIdle /\ DecIdle /\ VarintIdle /\ AllocIdle

\* a step of the application on the pson at path p
Apply(p, nv, op) ==
    /\ tree' = SetAt(tree, p, nv)
    /\ brk' = Max(brk, HighestAddr(SetAt(tree, p, nv)) + 1)
    /\ nops' = nops + 1
    /\ lastOp' = op
    /\ UNCHANGED <<pc, empty_value, enc, freed, decVars, varintVars, allocVars>>

CanBuild == pc = "build" /\ nops < MaxOps

AssignInt ==
    /\ CanBuild
    /\ \E p \in Paths(tree), n \in Ints :
          Apply(p, assign_int(GetAt(tree, p), n, brk),
                Op("assign_int", p, <<>>, n, FALSE, p))

AssignBool ==
    /\ CanBuild
    /\ \E p \in Paths(tree), b \in BOOLEAN :
          Apply(p, assign_bool(GetAt(tree, p), b),
                Op("assign_bool", p, <<>>, 0, b, p))

AssignDouble ==
    /\ CanBuild
    /\ \E p \in Paths(tree), d \in Doubles :
          Apply(p, assign_double(GetAt(tree, p), d, brk),
                Op("assign_double", p, <<>>, 0, FALSE, p))

AssignString ==
    /\ CanBuild
    /\ \E p \in Paths(tree), str \in Strings :
          Apply(p, assign_str(GetAt(tree, p), str, brk),
                Op("assign_str", p, <<>>, 0, FALSE, p))

AssignBytes ==
    /\ CanBuild
    /\ \E p \in Paths(tree), bytes \in ByteBuffers :
          Apply(p, set_bytes(GetAt(tree, p), bytes, brk),
                Op("set_bytes", p, <<>>, 0, FALSE, p))

\* room for one more item in the composite v, were it coerced to type t
HasRoom(v, t) == v.field_type_ # t \/ Len(v.value_.items) < MaxItems

\* value[name]: get or create
Index ==
    /\ CanBuild
    /\ \E p \in Paths(tree), name \in Names :
          /\ Len(p) < MaxDepth
          /\ \/ HasRoom(GetAt(tree, p), object_field)
             \/ pson_index_const(GetAt(tree, p), name) # 0
          /\ LET r == pson_index(GetAt(tree, p), name, brk)
             IN Apply(p, r.v, Op("index", p, name, 0, FALSE, p \o <<r.idx>>))

\* value[name] on a const pson: read only
ConstIndex ==
    /\ CanBuild
    /\ \E p \in Paths(tree), name \in Names :
          LET i == pson_index_const(GetAt(tree, p), name)
          IN Apply(p, GetAt(tree, p),
                   Op("const_index", p, name, 0, FALSE,
                      IF i = 0 THEN EmptyRef ELSE p \o <<i>>))

\* ((pson_array&) value).create_item()
ArrayCreateItem ==
    /\ CanBuild
    /\ \E p \in Paths(tree) :
          /\ Len(p) < MaxDepth
          /\ HasRoom(GetAt(tree, p), array_field)
          /\ LET nv == array_create_item(GetAt(tree, p), brk)
             IN Apply(p, nv, Op("create_item", p, <<>>, 0, FALSE,
                                p \o <<Len(nv.value_.items)>>))

\* the tree goes out of scope
Destroy ==
    /\ pc = "build"
    /\ pc' = "destroyed"
    /\ freed' = pson_dtor(tree)
    /\ lastOp' = Op("destroy", <<>>, <<>>, 0, FALSE, <<>>)
    /\ UNCHANGED <<tree, nops, brk, empty_value, enc, decVars, varintVars, allocVars>>

\* encoder.encode(tree) into a sink whose bytes a decoder then reads
Encode ==
    /\ pc = "build"
    /\ pc' = "decode"
    /\ enc' = encode(NewEncoder(TRUE), tree)
    /\ src' = encode(NewEncoder(TRUE), tree).out
    /\ srcCounts' \in BOOLEAN
    /\ wmeta' = [kind |-> "encoded", parts |-> <<>>, len |-> 0]
    /\ dmax' = 1
    /\ lastOp' = Op("encode", <<>>, <<>>, 0, FALSE, <<>>)
    /\ UNCHANGED <<tree, nops, brk, empty_value, freed, overrun, dec, dcur, dstack, douts,
                   varintVars, allocVars>>

-----------------------------------------------------------------------------
(* The decoder at work: one action per decode(value) call up to its first  *)
(* loop, one per loop iteration, one per loop exit.                        *)

Frame(path, size, start_read) == [path |-> path, size |-> size, start_read |-> start_read]

\* what the caller has when decode(value) returns: the value, bytes_read(),
\* and no status, decode being void; eof records whether a read had failed
Out(value, R) == [value |-> value, status |-> "void", read_ |-> R.read_, eof |-> R.eof]

\* a decoder is at work, in a process that has not been ended
Decoding == pc \in {"decode", "wire"} /\ ~dec.aborted

\* the caller calls decode(value) on a fresh pson
DecodeCall ==
    /\ Decoding /\ dstack = <<>> /\ Len(douts) < dmax
    /\ LET r == decode(dec, NullPson)
       IN /\ dec' = r.R
          /\ IF r.push
             THEN /\ dcur' = r.value
                  /\ dstack' = <<Frame(<<>>, r.size, r.R.read_)>>
                  /\ douts' = douts
             ELSE /\ dcur' = NullPson
                  /\ dstack' = <<>>
                  /\ douts' = IF r.R.aborted THEN douts
                               ELSE Append(douts, Out(r.value, r.R))
    /\ UNCHANGED <<pc, buildVars, src, srcCounts, overrun, wmeta, dmax, varintVars, allocVars>>

Top == dstack[Len(dstack)]

\* one iteration of decode(pson_object&, size) or decode(pson_array&, size):
\* create_item(), then decode the pair or the value
DecodeChild ==
    /\ Decoding /\ dstack # <<>>
    /\ loop_continues(Top.size, dec.read_, Top.start_read)
    /\ LET comp == GetAt(dcur, Top.path)
           n    == Len(comp.value_.items)
           here == Top.path \o <<n + 1>>
           R0   == [dec EXCEPT !.created = @ + 1]
       IN /\ n < MaxDecodeItems
          /\ IF comp.value_.kind = "obj"
             THEN LET r == decode_pair(R0, NewPair)
                  IN /\ dcur' = SetAt(dcur, Top.path,
                                  [comp EXCEPT !.value_.items = create_item(@, 0, r.pair)])
                     /\ dec' = r.R
                     /\ dstack' = IF r.push
                                  THEN Append(dstack, Frame(here, r.size, r.R.read_))
                                  ELSE dstack
             ELSE LET r == decode(R0, NullPson)
                  IN /\ dcur' = SetAt(dcur, Top.path,
                                  [comp EXCEPT !.value_.items = create_item(@, 0, r.value)])
                     /\ dec' = r.R
                     /\ dstack' = IF r.push
                                  THEN Append(dstack, Frame(here, r.size, r.R.read_))
                                  ELSE dstack
    /\ UNCHANGED <<pc, buildVars, src, srcCounts, overrun, wmeta, douts, dmax, varintVars, allocVars>>

\* the loop condition fails: the loop ends, and with the outermost loop the
\* decode(value) call
DecodeReturn ==
    /\ Decoding /\ dstack # <<>>
    /\ ~loop_continues(Top.size, dec.read_, Top.start_read)
    /\ dstack' = SubSeq(dstack, 1, Len(dstack) - 1)
    /\ IF Len(dstack) = 1
       THEN douts' = Append(douts, Out(dcur, dec)) /\ dcur' = NullPson
       ELSE UNCHANGED <<douts, dcur>>
    /\ UNCHANGED <<pc, buildVars, src, srcCounts, overrun, wmeta, dec, dmax, varintVars, allocVars>>

Next ==
    \/ AssignInt \/ AssignBool \/ AssignDouble \/ AssignString \/ AssignBytes
    \/ Index \/ ConstIndex \/ ArrayCreateItem
    \/ Destroy \/ Encode
    \/ DecodeCall \/ DecodeChild \/ DecodeReturn

Spec == Init /\ [][Next]_vars

-----------------------------------------------------------------------------
(* Properties of the application, the encoder and the round trip           *)

RECURSIVE Observable(_)
\* the tag and payload a reader of the value can observe: the payload only
\* where the tag has one, names and strings up to their terminator
Observable(v) ==
    LET t == v.field_type_
        p == v.value_
    IN CASE t \in {varint_field, svarint_field, float_field, double_field, bytes_field} ->
              <<t, p.kind, p.ok, p.data>>
         [] t = string_field -> <<t, p.kind, p.ok, CStr(p.data)>>
         [] t = object_field ->
              <<t, [i \in 1..Len(p.items) |->
                      <<CStr(p.items[i].item_.name_.data),
                        Observable(p.items[i].item_.value_)>>]>>
         [] t = array_field ->
              <<t, [i \in 1..Len(p.items) |-> Observable(p.items[i].item_)]>>
         [] OTHER -> <<t>>

RoundTripDone == pc = "decode" /\ Len(douts) = 1

\* C1: decoding the bytes encode(V) wrote yields a tree with the same tag and
\* payload at every node and the same order of pairs and items, and the
\* decoder consumes exactly the bytes the encoder wrote.
C1_RoundTrip ==
    RoundTripDone =>
        /\ Observable(douts[1].value) = Observable(tree)
        /\ douts[1].read_ = Len(src)
        /\ douts[1].read_ = enc.written_

Count(seq, x) == Cardinality({i \in DOMAIN seq : seq[i] = x})

\* C8: after the destruction of a Value every block obtained from the
\* allocator for it, whenever it was obtained, has been passed to deallocate
\* exactly once.
C8_ExactlyOnceRelease ==
    pc = "destroyed" => \A a \in 1..(brk - 1) : Count(freed, a) = 1

\* what does hold: no block is passed to deallocate twice
C8_NoDoubleRelease ==
    pc = "destroyed" => \A a \in 1..(brk - 1) : Count(freed, a) <= 1

\* C9: for every object or array, at every nesting depth, the length
\* pb_encode_submessage writes after the tag (the size-counting sink's tally)
\* equals the number of bytes the second pass writes to the real sink.
C9_TwoPassLength ==
    pc = "decode" =>
        \A i \in DOMAIN enc.subs : enc.subs[i].declared = enc.subs[i].emitted

\* a nested composite was encoded: two submessages, the outer one not empty
C9_Witness ==
    /\ pc = "decode" /\ Len(enc.subs) >= 2
    /\ \E i \in DOMAIN enc.subs : enc.subs[i].declared > 4

PairName(item) == CStr(item.item_.name_.data)

NoDuplicateNames(v) ==
    \A p \in Paths(v) :
        LET o == GetAt(v, p)
        IN o.field_type_ = object_field =>
              \A i, j \in 1..Len(o.value_.items) :
                  i # j => PairName(o.value_.items[i]) # PairName(o.value_.items[j])

\* the step of a get-or-create lookup (non-const operator[])
C3_IndexStep ==
    lastOp'.op = "index" =>
        LET p       == lastOp'.path
            name    == lastOp'.name
            before  == GetAt(tree, p)
            after   == GetAt(tree', p)
            old     == IF before.field_type_ = object_field
                       THEN before.value_.items ELSE <<>>
            new     == after.value_.items
            present == \E i \in 1..Len(old) : PairName(old[i]) = name
        IN /\ after.field_type_ = object_field
           /\ IF present
              THEN /\ new = old
                   /\ Len(lastOp'.ret) = Len(p) + 1
                   /\ PairName(old[lastOp'.ret[Len(p) + 1]]) = name
                   /\ GetAt(tree', lastOp'.ret) = GetAt(tree, lastOp'.ret)
              ELSE /\ Len(new) = Len(old) + 1
                   /\ SubSeq(new, 1, Len(old)) = old
                   /\ PairName(new[Len(new)]) = name
                   /\ new[Len(new)].item_.value_ = NullPson
                   /\ lastOp'.ret = p \o <<Len(new)>>

\* the step of a read-only lookup (const operator[])
C3_ConstIndexStep ==
    lastOp'.op = "const_index" =>
        LET p       == lastOp'.path
            name    == lastOp'.name
            before  == GetAt(tree, p)
            present == /\ before.field_type_ = object_field
                       /\ \E i \in 1..Len(before.value_.items) :
                              PairName(before.value_.items[i]) = name
        IN /\ tree' = tree
           /\ brk' = brk
           /\ IF present
              THEN GetAt(tree, p \o <<lastOp'.ret[Len(p) + 1]>>) = GetAt(tree, lastOp'.ret)
                   /\ PairName(before.value_.items[lastOp'.ret[Len(p) + 1]]) = name
              ELSE lastOp'.ret = EmptyRef

\* C3: after any sequence of get-or-create and read-only lookups no two pairs
\* of an object have the same name; a get-or-create for a present name
\* returns the existing pair's value and appends nothing, for an absent name
\* it appends exactly one pair with a null value at the tail; a read-only
\* lookup never changes the pair list and for an absent name or a non-object
\* returns the static empty value, which stays null.
C3_LookupSemantics ==
    [][/\ C3_IndexStep
       /\ C3_ConstIndexStep
       /\ NoDuplicateNames(tree')
       /\ empty_value' = NullPson]_vars

\* a get-or-create returned the first pair of an object that has two
C3_Witness ==
    /\ lastOp.op = "index"
    /\ Len(GetAt(tree, lastOp.path).value_.items) = 2
    /\ lastOp.ret = lastOp.path \o <<1>>

CompactTag(op) ==
    IF op.op = "assign_bool" THEN (IF op.b THEN true_field ELSE false_field)
    ELSE IF op.n = 0 THEN zero_field ELSE one_field

IsCompactAssign(op) ==
    op.op = "assign_bool" \/ (op.op = "assign_int" /\ op.n \in {0, 1})

\* C5: assigning 0, 1, true or false to a Value, whatever it held, sets the
\* tag to zero, one, true or false and allocates nothing, and encoding that
\* Value (or a null Value) writes exactly one byte, (type_tag << 3) | 0.
C5_Compaction ==
    [][/\ IsCompactAssign(lastOp') =>
             LET before == GetAt(tree, lastOp'.path)
                 after  == GetAt(tree', lastOp'.path)
                 E      == encode(NewEncoder(TRUE), after)
             IN /\ after.field_type_ = CompactTag(lastOp')
                /\ after.value_ = before.value_
                /\ brk' = brk
                /\ E.out = <<CompactTag(lastOp') * 8>>
                /\ E.written_ = 1
       /\ \A p \in Paths(tree') :
             GetAt(tree', p).field_type_ = null_field =>
                 encode(NewEncoder(TRUE), GetAt(tree', p)).out = <<0>>]_vars

\* integer 0 was assigned to a Value that held a payload; it encodes as 56
C5_Witness ==
    /\ lastOp.op = "assign_int" /\ lastOp.n = 0
    /\ GetAt(tree, lastOp.path).value_.kind = "buf"
    /\ encode(NewEncoder(TRUE), GetAt(tree, lastOp.path)).out = <<56>>

-----------------------------------------------------------------------------
(* SpecWire: a decoder over bytes that arrive from outside: encodings cut  *)
(* short, streams with a field of unknown type, object and array sections  *)
(* put together pair by pair, and short arbitrary byte strings.            *)

MaxFuzzLen == 3      \* length of the arbitrary byte strings
MaxWireItems == 2    \* pairs or items of a section put together by hand

\* the bytes encode(v) hands to the sink
Wire(v) == encode(NewEncoder(TRUE), v).out

Meta(kind, parts, len) == [kind |-> kind, parts |-> parts, len |-> len]
Input(bytes, meta, calls) == [src |-> bytes, meta |-> meta, calls |-> calls]

StrValue(str) == assign_str(NullPson, str, 0)
IntValue(n) == assign_int(NullPson, n, 0)

\* {"a": 128} and ["a"], built the way an application builds them
SmallObject ==
    SetAt(pson_index(NullPson, <<97>>, 0).v, <<1>>, IntValue(128))
SmallArray ==
    SetAt(array_create_item(NullPson, 0), <<1>>, StrValue(<<97>>))

\* one value of every type whose tag requires a payload
PayloadValues ==
    { IntValue(128), IntValue(-1), StrValue(<<97, 98>>), set_bytes(NullPson, <<0, 200>>, 0),
      SmallObject, SmallArray } \cup {assign_double(NullPson, d, 0) : d \in Doubles}

\* every encoding of a payload value cut after k >= 1 bytes, and whole
TruncInputs ==
    UNION {{Input(SubSeq(Wire(v), 1, k), Meta("trunc", <<v>>, Len(Wire(v))), 1) :
               k \in 1..Len(Wire(v))} : v \in PayloadValues}

UnknownTypes == {13, 15, varint_field}
SkipLens == {0, 2, LongLen}
SkipValues == {IntValue(0), IntValue(128), StrValue(<<97>>)}

\* a field of type t under the length-delimited wire kind, L bytes long
UnknownField(t, L) ==
    write(enc_pb_encode_varint(pb_encode_tag(NewEncoder(TRUE), length_delimited, t),
                               ToBits(L, W64)),
          Rep(L, 7), L).out

\* a recognized value, an unknown field, a recognized value
SkipInputs ==
    {Input(Wire(x[1]) \o UnknownField(x[3], x[4]) \o Wire(x[2]),
           Meta("skip", <<x[1], x[2]>>, Len(Wire(x[1])) + Len(UnknownField(x[3], x[4]))),
           3) : x \in SkipValues \X SkipValues \X UnknownTypes \X SkipLens}

WireNames == {<<97>>, <<98>>, Rep(LongLen, 110)}
WireValues == {IntValue(0), StrValue(<<97>>)}

SeqsUpTo(S, n) == UNION {[1..k -> S] : k \in 0..n}

ObjectOf(pairs) ==
    Pson(object_field,
         Obj([i \in 1..Len(pairs) |->
                ListItem(0, PsonPair(Buf(pairs[i][1] \o <<0>>), pairs[i][2]))]))

ArrayOf(values) ==
    Pson(array_field, Arr([i \in 1..Len(values) |-> ListItem(0, values[i])]))

\* object sections of up to MaxWireItems pairs, names repeated or not, and
\* array sections of up to MaxWireItems values
SectionInputs ==
    {Input(Wire(ObjectOf(ps)), Meta("section", <<ObjectOf(ps)>>, 0), 1) :
        ps \in SeqsUpTo(WireNames \X WireValues, MaxWireItems)}
    \cup
    {Input(Wire(ArrayOf(xs)), Meta("section", <<ArrayOf(xs)>>, 0), 1) :
        xs \in SeqsUpTo(WireValues, MaxWireItems)}

\* tags (varint, float, zero, string, object, array, unknown), small lengths
\* and varint bytes with and without the continuation bit
WireBytes == {0, 1, 2, 8, 29, 56, 74, 90, 98, 106, 97, 128, 129}

FuzzInputs ==
    {Input(b, Meta("fuzz", <<>>, 0), 2) : b \in SeqsUpTo(WireBytes, MaxFuzzLen)}

\* every type tag 0..15 under the varint, length-delimited and fixed-32
\* wire kinds, followed by a length or varint byte 1 and one more byte
WireKinds == {varint, length_delimited, fixed_32}
MismatchInputs ==
    {Input(<<t * 8 + w, 1, 97>>, Meta("mismatch", <<>>, 0), 1) : t \in 0..15, w \in WireKinds}

\* a varint or svarint tag, k bytes with the continuation bit set, and a
\* last byte without it or the end of the source
LongVarintLens == {TempSize - 2, TempSize - 1, TempSize, TempSize + 1}
LongVarintInputs ==
    {Input(<<t * 8 + varint>> \o Rep(k, 129) \o tail, Meta("longvarint", <<>>, k), 1) :
        t \in {varint_field, svarint_field}, k \in LongVarintLens, tail \in {<<1>>, <<>>}}

WireInputs ==
    TruncInputs \cup SkipInputs \cup SectionInputs \cup FuzzInputs \cup MismatchInputs
        \cup LongVarintInputs

InitWire ==
    /\ pc = "wire" /\ BuildIdle /\ VarintIdle /\ AllocIdle
    /\ \E w \in WireInputs : src = w.src /\ wmeta = w.meta /\ dmax = w.calls
    /\ srcCounts \in BOOLEAN
    /\ overrun \in (IF wmeta.kind = "longvarint" THEN Overruns ELSE {"spill"})
    /\ dec = NewDecoder /\ dcur = NullPson /\ dstack = <<>> /\ douts = <<>>

NextWire == DecodeCall \/ DecodeChild \/ DecodeReturn

SpecWire == InitWire /\ [][NextWire]_vars

\* C2: when the source ends right after a tag whose type requires a payload,
\* or inside a varint, fixed-width field or length-delimited section, decode
\* stops, reports a decode failure to its caller with the count of bytes
\* consumed, and never reads or counts bytes beyond the end of the source.
C2_Truncation ==
    (wmeta.kind = "trunc" /\ Len(src) < wmeta.len) =>
        /\ ~dec.late
        /\ dec.read_ <= Len(src)
        /\ \A i \in DOMAIN douts :
              /\ douts[i].status = "failure"
              /\ douts[i].read_ <= Len(src)

\* C6: a length-delimited field of unknown type is skipped: decode reads its
\* length L, consumes exactly L further bytes and allocates no payload, the
\* next call starts right after it, and the recognized fields before and
\* after it decode to what they were encoded from.
C6_UnknownFieldSkip ==
    wmeta.kind = "skip" =>
        /\ Len(douts) >= 1 =>
              Observable(douts[1].value) = Observable(wmeta.parts[1])
        /\ Len(douts) >= 2 =>
              /\ douts[2].read_ = wmeta.len
              /\ douts[2].value.value_ = NULL
        /\ Len(douts) >= 3 =>
              Observable(douts[3].value) = Observable(wmeta.parts[2])

\* C7: decoding an object or array section appends one pair or value per
\* child of the wire, so the decoded sequence equals the sequence of wire
\* pairs in wire order, two pairs of the same name both present.
C7_DecodeAppends ==
    wmeta.kind = "section" =>
        LET wirePairs == Observable(wmeta.parts[1])[2]
            decoded   == Observable(dcur)[2]
        IN /\ dstack # <<>> =>
                 /\ Len(decoded) <= Len(wirePairs)
                 /\ \A i \in 1..Len(decoded) : decoded[i] = wirePairs[i]
           /\ Len(douts) = 1 =>
                 Observable(douts[1].value) = Observable(wmeta.parts[1])

\* what does hold, for every input: an iteration of a decode loop appends
\* exactly one item at the tail of its composite and changes no other item
C7_AppendsAtTail ==
    [][dec'.created # dec.created =>
          LET before == GetAt(dcur, Top.path).value_.items
              after  == GetAt(dcur', Top.path).value_.items
          IN /\ dec'.created = dec.created + 1
             /\ Len(after) = Len(before) + 1
             /\ \A i \in 1..Len(before) : after[i] = before[i]]_vars

\* C10: decode terminates for every finite source: a child loop stops once
\* the declared length is consumed, and with a short or malformed length it
\* ends no later than source exhaustion: once a read has failed, no further
\* child is created.
C10_LoopEndsAtExhaustion ==
    [][dec.eof => dec'.created = dec.created]_vars

\* pson::operator const char *(): the pointer handed to the caller
as_string(v) == IF v.field_type_ = string_field THEN v.value_ ELSE Buf(<<0>>)

\* the shape of payload a tag requires, "null" where it requires none
PayloadKind(t) ==
    IF t \in {string_field, bytes_field, varint_field, svarint_field, float_field,
              double_field} THEN "buf"
    ELSE IF t = object_field THEN "obj"
    ELSE IF t = array_field THEN "arr"
    ELSE "null"

TagInRange(v) == v.field_type_ \in null_field..array_field

PayloadMatchesTag(v) ==
    PayloadKind(v.field_type_) # "null" => v.value_.kind = PayloadKind(v.field_type_)

\* reading as a string, and coercing a composite, reach no null pointer
NoNullDereference(v) ==
    /\ as_string(v).kind # "null"
    /\ v.field_type_ = object_field => to_object(v, 0).value_.kind = "obj"
    /\ v.field_type_ = array_field => to_array(v, 0).value_.kind = "arr"

\* the psons of the trees the finished decode(value) calls filled
DecodedValues ==
    UNION {{GetAt(douts[i].value, p) : p \in Paths(douts[i].value)} : i \in 1..Len(douts)}

\* C12: after decode(value) on any byte sequence, mismatched wire kinds and
\* type tags above 12 included, every value of the resulting tree has a tag
\* in 0..12 and, where the tag requires a payload, a non-null payload of the
\* matching shape; reading it as a string returns no null pointer and
\* coercing it to an object or array dereferences no null payload.
C12_TagPayloadConsistency ==
    \A v \in DecodedValues : TagInRange(v) /\ PayloadMatchesTag(v) /\ NoNullDereference(v)

\* the same for inputs that are whole encodings of well-formed sections,
\* where no read fails and every tag is one the encoder writes
C12_ConsistentOnWholeSections ==
    (wmeta.kind = "section" /\ ~dec.eof) =>
        \A v \in DecodedValues : TagInRange(v) /\ PayloadMatchesTag(v) /\ NoNullDereference(v)

\* the varint and svarint values decoded so far, finished calls and the
\* running one
VarintValues ==
    {v \in DecodedValues \cup {GetAt(dcur, p) : p \in Paths(dcur)} :
        v.field_type_ \in {varint_field, svarint_field} /\ v.value_.kind = "buf"}

\* C13: for any input byte stream pb_read_varint writes only to indices
\* 0..9 of its 10-byte temporary buffer, however many consecutive bytes with
\* the continuation bit set the source delivers, and the payload it
\* allocates for the value is at most 10 bytes long.
C13_BoundedVarintRead ==
    /\ dec.stored <= TempSize
    /\ \A v \in VarintValues : v.value_.size <= TempSize

\* the same for the encodings the encoder writes, which hold at most ten
\* bytes per varint: this holds
C13_BoundedOnEncoderOutput ==
    wmeta.kind \in {"trunc", "skip", "section", "encoded"} =>
        /\ dec.stored <= TempSize
        /\ \A v \in VarintValues : v.value_.size <= TempSize

-----------------------------------------------------------------------------
(* SpecVarint: the varint encoders and decoders applied to magnitudes      *)

Pow2Bits(k) == [i \in 1..W64 |-> IF i = k + 1 THEN 1 ELSE 0]
OnesBits(k) == [i \in 1..W64 |-> IF i <= k THEN 1 ELSE 0]
Pow2Plus1Bits(k) == [i \in 1..W64 |-> IF i = k + 1 \/ i = 1 THEN 1 ELSE 0]

\* magnitudes: 2^k, 2^k - 1 and 2^k + 1 over the whole 64-bit range
VarintInputs ==
    {Pow2Bits(k) : k \in 0..(W64 - 1)} \cup {OnesBits(k) : k \in 0..W64}
        \cup {Pow2Plus1Bits(k) : k \in 1..(W64 - 1)}

NoBits == <<>>

VarintInit ==
    /\ vM \in VarintInputs
    /\ vPc = "start"
    /\ vBuf = <<>> /\ vStream = <<>> /\ vSize = 0
    /\ vDecBuf = NoBits /\ vDecStream = NoBits
    /\ pc = "off" /\ BuildIdle /\ DecIdle /\ AllocIdle

VarintEncode ==
    /\ vPc = "start"
    /\ vBuf' = pb_encode_varint(vM)
    /\ vStream' = enc_pb_encode_varint(NewEncoder(TRUE), vM).out
    /\ vSize' = get_varint_size(vM)
    /\ vPc' = "encoded"
    /\ UNCHANGED <<vM, vDecBuf, vDecStream, pc, buildVars, decVars, allocVars>>

VarintDecode ==
    /\ vPc = "encoded"
    /\ \E a \in pb_decode_varint(vBuf), b \in pb_decode_varint64(vStream) :
          /\ vDecBuf' = a
          /\ vDecStream' = b[1]
    /\ vPc' = "decoded"
    /\ UNCHANGED <<vM, vBuf, vStream, vSize, pc, buildVars, decVars, allocVars>>

VarintNext == VarintEncode \/ VarintDecode

SpecVarint == VarintInit /\ [][VarintNext]_vars

MinimalVarintSize(m) ==
    IF BitLength(m) = 0 THEN 1 ELSE (BitLength(m) + 6) \div 7

\* C4: for every unsigned 64-bit magnitude M the encoders' bytes decode back
\* to exactly M through pson::pb_decode_varint and
\* pson_decoder::pb_decode_varint64, and the encoding has exactly
\* max(1, ceil(bitlength(M)/7)) bytes, which is get_varint_size(M).
C4_VarintRoundTripMinimal ==
    /\ vPc \in {"encoded", "decoded"} =>
          /\ Len(vBuf) = MinimalVarintSize(vM)
          /\ Len(vStream) = MinimalVarintSize(vM)
          /\ vSize = MinimalVarintSize(vM)
    /\ vPc = "decoded" => (vDecBuf = vM /\ vDecStream = vM)

\* what does hold: sizes are minimal and the payload-buffer pair round-trips
C4_BufferRoundTripMinimal ==
    /\ vPc \in {"encoded", "decoded"} =>
          /\ Len(vBuf) = MinimalVarintSize(vM)
          /\ Len(vStream) = MinimalVarintSize(vM)
          /\ vBuf = vStream
          /\ vSize = MinimalVarintSize(vM)
    /\ vPc = "decoded" => vDecBuf = vM

-----------------------------------------------------------------------------
(* SpecAlloc: circular_memory_allocator<BufferSize> under a sequence of    *)
(* allocate calls, sizes above the buffer size included                    *)

BufferSize == 4      \* the template argument buffer_size
MaxAllocs == 4       \* allocate calls in one behaviour

\* requested sizes: none, fitting, exactly the buffer, and above it
AllocSizes == 0..(BufferSize + 2)

\* circular_memory_allocator::allocate(size): the offset of the returned
\* position in buffer_, and index_ afterwards
allocate(index, size) ==
    LET start == IF index + size > BufferSize THEN 0 ELSE index
    IN [offset |-> start, index_ |-> start + size, wrapped |-> index + size > BufferSize]

Allocate ==
    /\ pc = "alloc" /\ aCalls < MaxAllocs
    /\ \E size \in AllocSizes :
          LET r == allocate(index_, size)
              b == [before |-> index_, size |-> size, offset |-> r.offset]
          IN /\ index_' = r.index_
             /\ aLast' = b
             /\ aSince' = IF r.wrapped THEN <<b>> ELSE Append(aSince, b)
    /\ aCalls' = aCalls + 1
    /\ UNCHANGED <<pc, buildVars, decVars, varintVars>>

\* deallocate(void*) has an empty body
Deallocate ==
    /\ pc = "alloc" /\ aCalls > 0 /\ aCalls < MaxAllocs
    /\ aCalls' = aCalls + 1
    /\ UNCHANGED <<index_, aLast, aSince, pc, buildVars, decVars, varintVars>>

InitAlloc == pc = "alloc" /\ BuildIdle /\ DecIdle /\ VarintIdle /\ AllocIdle

NextAlloc == Allocate \/ Deallocate

SpecAlloc == InitAlloc /\ [][NextAlloc]_vars

\* the half-open byte ranges of two blocks share a byte
Overlap(b1, b2) ==
    /\ b1.size > 0 /\ b2.size > 0
    /\ b1.offset < b2.offset + b2.size
    /\ b2.offset < b1.offset + b1.size

InsideBuffer(b) == b.offset + b.size <= BufferSize

NoOverlapSinceWrap ==
    \A i, j \in 1..Len(aSince) : i # j => ~Overlap(aSince[i], aSince[j])

WrapsToZero == aLast.before + aLast.size > BufferSize => aLast.offset = 0

\* C11: after any sequence of allocate(size) calls on
\* circular_memory_allocator<N>, sizes above N included, index_ <= N and
\* every returned block lies inside the N-byte buffer; a request that does
\* not fit after index_ is placed at offset 0; blocks returned between two
\* consecutive wraps do not overlap.
C11_RingAllocatorBounds ==
    pc = "alloc" =>
        /\ index_ <= BufferSize
        /\ \A i \in 1..Len(aSince) : InsideBuffer(aSince[i])
        /\ WrapsToZero
        /\ NoOverlapSinceWrap

\* the same with every requested size at most the buffer size: this holds
C11_BoundsForFittingSizes ==
    (pc = "alloc" /\ \A i \in 1..Len(aSince) : aSince[i].size <= BufferSize) =>
        /\ index_ <= BufferSize
        /\ \A i \in 1..Len(aSince) : InsideBuffer(aSince[i])
        /\ WrapsToZero
        /\ NoOverlapSinceWrap

\* placement at offset 0 and disjointness hold for every size
C11_WrapAndDisjoint == pc = "alloc" => WrapsToZero /\ NoOverlapSinceWrap

====
